---- MODULE Spec2Model ----
(***************************************************************************)
(* Model of Photo_Sorting_Script.py: the main run order (init_log,         *)
(* sort_media, move_remaining_non_media_files, delete_junk_files,          *)
(* delete_empty_folders) over a source tree, an output tree and a CSV log. *)
(*                                                                         *)
(* A file name is the pair (stem, ext) that pathlib's Path.stem and        *)
(* Path.suffix give: "photo_DUP.jpg" is stem "photo_DUP", ext ".jpg", so   *)
(* that a generated collision name and a source file that already carries  *)
(* that name are the same path.                                            *)
(***************************************************************************)
EXTENDS Integers, Sequences, FiniteSets, TLC

VARIABLES
    src,          \* files present in the source tree (SOURCE_DIR)
    dirs,         \* directories present below SOURCE_DIR
    walk,         \* listing order of os.walk(SOURCE_DIR)
    todo,         \* files the running os.walk loop has still to visit
    out,          \* files present in the output tree (OUTPUT_DIR)
    logExists,    \* os.path.exists(LOG_FILE)
    log,          \* rows of LOG_FILE
    seen_hashes,  \* sort_media's seen_hashes dict, as a set of [hash, path]
    phase,        \* position in __main__
    step,         \* position inside the body of sort_media's loop
    cur,          \* locals of the sort_media loop body for the current file
    exiftool,     \* EXIFTOOL_EXISTS
    enableFix,    \* ENABLE_TIMESTAMP_FIX
    invocations,  \* number of exiftool repair invocations so far
    run,          \* "first" start of the script, or "second"
    moved,        \* completed moves of the current run, in order
    failed,       \* moves of the current run that raised
    deleted,      \* files unlinked by delete_junk_files in the current run
    clean1,       \* the first run completed and none of its moves raised
    log0,         \* rows in the log when the current run started
    rmdir_failed, \* some rmdir of delete_empty_folders raised in this run
    unlistable,   \* the directories os.walk cannot list during the current run
    call          \* a call of one of the pure helpers: its arguments and result

vars == <<src, dirs, walk, todo, out, logExists, log, seen_hashes, phase, step,
          cur, exiftool, enableFix, invocations, run, moved, failed,
          deleted, clean1, log0, rmdir_failed, unlistable, call>>

(***************************************************************************)
(* Bounds                                                                  *)
(***************************************************************************)
MaxFiles == 3    \* files in the source tree at start
MaxRerunFiles == 2   \* files in the source tree when the script is run twice

(***************************************************************************)
(* Configuration                                                           *)
(***************************************************************************)
SOURCE_DIR == "S"
OUTPUT_DIR == "OUT"
IMAGE_EXT == {".jpg", ".jpeg", ".png", ".tiff", ".heic", ".bmp"}
VIDEO_EXT == {".mp4", ".mov", ".avi", ".mkv", ".3gp", ".mpg"}

\* str.lower() on the names and extensions that occur in the model
Lower(s) ==
    CASE s = ".JPG" -> ".jpg"
      [] s = ".MOV" -> ".mov"
      [] s = "Thumbs" -> "thumbs"
      [] OTHER -> s

(***************************************************************************)
(* The pure helpers.  A Python str is a sequence of characters; the        *)
(* characters that have no printable form are written by name ("TAB",      *)
(* "NUL", "E_ACUTE").  While a helper is checked the pipeline stands       *)
(* still.                                                                  *)
(***************************************************************************)
MaxChunks == 3   \* pieces an input string of clean_device_string is made of

mainvars == <<src, dirs, walk, todo, out, logExists, log, seen_hashes, phase,
              step, cur, exiftool, enableFix, invocations, run, moved, failed,
              deleted, clean1, log0, rmdir_failed, unlistable>>

PipelineIdle ==
    /\ src = {} /\ dirs = {} /\ walk = <<>> /\ todo = <<>> /\ out = {}
    /\ logExists = FALSE /\ log = <<>> /\ seen_hashes = {} /\ phase = "idle"
    /\ step = "next" /\ cur = <<>> /\ exiftool = FALSE /\ enableFix = TRUE
    /\ invocations = 0 /\ run = "first" /\ moved = <<>> /\ failed = {}
    /\ deleted = {} /\ clean1 = FALSE /\ log0 = 0 /\ rmdir_failed = FALSE
    /\ unlistable = {}

\* the characters with ord 32..126, in ord order (the grave accent by name)
Ascii == <<
    " ", "!", "\"", "#", "$", "%", "&", "'", "(", ")",
    "*", "+", ",", "-", ".", "/", "0", "1", "2", "3",
    "4", "5", "6", "7", "8", "9", ":", ";", "<", "=",
    ">", "?", "@", "A", "B", "C", "D", "E", "F", "G",
    "H", "I", "J", "K", "L", "M", "N", "O", "P", "Q",
    "R", "S", "T", "U", "V", "W", "X", "Y", "Z", "[",
    "\\", "]", "^", "_", "GRAVE", "a", "b", "c", "d", "e",
    "f", "g", "h", "i", "j", "k", "l", "m", "n", "o",
    "p", "q", "r", "s", "t", "u", "v", "w", "x", "y",
    "z", "{", "|", "}", "~">>

\* ord(ch)
Ord(ch) ==
    IF ch = "NUL" THEN 0
    ELSE IF ch = "TAB" THEN 9
    ELSE IF ch = "E_ACUTE" THEN 233
    ELSE 31 + (CHOOSE i \in 1..Len(Ascii) : Ascii[i] = ch)

\* ch.lower()
LowerCh(ch) ==
    LET n == IF ch \in {"NUL", "TAB", "E_ACUTE"} THEN 0 ELSE Ord(ch)
    IN  IF 65 <= n /\ n <= 90 THEN Ascii[n + 1] ELSE ch

\* s.lower()
LowerStr(s) == [i \in 1..Len(s) |-> LowerCh(s[i])]

\* the characters \s matches; only the blank has an ord in 32..126
WhiteSpace == {" ", "TAB"}

\* [<>:"/\\|?*]
IllegalChars == {"<", ">", ":", "\"", "/", "\\", "|", "?", "*"}

\* re.sub of every maximal run of characters in cs by the one character by
RECURSIVE SubRuns(_, _, _)
SubRuns(s, cs, by) ==
    IF s = <<>> THEN <<>>
    ELSE IF Head(s) \in cs
         THEN IF Len(s) > 1 /\ s[2] \in cs
              THEN SubRuns(Tail(s), cs, by)
              ELSE <<by>> \o SubRuns(Tail(s), cs, by)
         ELSE <<Head(s)>> \o SubRuns(Tail(s), cs, by)

\* s.strip(chars)
RECURSIVE LStrip(_, _)
LStrip(s, cs) ==
    IF s # <<>> /\ Head(s) \in cs THEN LStrip(Tail(s), cs) ELSE s
RECURSIVE RStrip(_, _)
RStrip(s, cs) ==
    IF s # <<>> /\ s[Len(s)] \in cs THEN RStrip(SubSeq(s, 1, Len(s) - 1), cs) ELSE s
Strip(s, cs) == RStrip(LStrip(s, cs), cs)

Str_default == <<"d", "e", "f", "a", "u", "l", "t">>

\* the strings that count as "default" after cleaning
DefaultLike ==
    {<<>>, Str_default, Str_default \o <<"_">>, <<"_">> \o Str_default,
     Str_default \o <<"_">> \o Str_default}

\* mutant: the underscores at the ends are not stripped
clean_device_string_nostrip(s) ==
    IF s = <<>> THEN Str_default
    ELSE LET s1 == SelectSeq(s, LAMBDA ch : 32 <= Ord(ch) /\ Ord(ch) <= 126)
             s2 == SelectSeq(s1, LAMBDA ch : ch \notin IllegalChars)
             s3 == SubRuns(s2, WhiteSpace, "_")
             s4 == SubRuns(s3, {"_"}, "_")
         IN  IF LowerStr(s4) \in DefaultLike THEN Str_default ELSE s4

clean_device_string(s) ==
    IF s = <<>> THEN Str_default
    ELSE LET s1 == SelectSeq(s, LAMBDA ch : 32 <= Ord(ch) /\ Ord(ch) <= 126)
             s2 == SelectSeq(s1, LAMBDA ch : ch \notin IllegalChars)
             s3 == SubRuns(s2, WhiteSpace, "_")
             s4 == Strip(SubRuns(s3, {"_"}, "_"), {"_"})
         IN  IF LowerStr(s4) \in DefaultLike THEN Str_default ELSE s4

\* the device get_exif_data forms from the Make and Model tags
exif_device(makeTag, modelTag) ==
    LET make == clean_device_string(makeTag)
        model == clean_device_string(modelTag)
        device == IF make = Str_default \/ model = Str_default
                  THEN Str_default
                  ELSE Strip(make \o <<"_">> \o model, {"_"})
    IN  clean_device_string(device)

\* the pieces input strings are made of
Chunks == {Str_default, <<"D", "e", "f", "a", "u", "l", "t">>,
           <<"C", "a", "n", "o", "n">>, <<"E", "O", "S">>, <<" ">>, <<"_">>,
           <<"/">>, <<"*">>, <<"TAB">>, <<"E_ACUTE">>, <<":">>}

RECURSIVE ChunkStrings(_)
ChunkStrings(n) ==
    IF n = 0 THEN {<<>>}
    ELSE LET shorter == ChunkStrings(n - 1)
         IN  shorter \cup {a \o c : a \in shorter, c \in Chunks}

InitDevice ==
    /\ PipelineIdle
    /\ \/ \E s \in ChunkStrings(MaxChunks) :
             call = [fn |-> "clean_device_string", arg |-> <<s>>,
                     done |-> FALSE, result |-> <<>>]
       \/ \E mk \in ChunkStrings(1), md \in ChunkStrings(MaxChunks - 1) :
             call = [fn |-> "exif_device", arg |-> <<mk, md>>,
                     done |-> FALSE, result |-> <<>>]

CallCleanDevice ==
    /\ call.fn = "clean_device_string" /\ ~call.done
    /\ call' = [call EXCEPT !.done = TRUE,
                            !.result = clean_device_string(call.arg[1])]
    /\ UNCHANGED mainvars

CallExifDevice ==
    /\ call.fn = "exif_device" /\ ~call.done
    /\ call' = [call EXCEPT !.done = TRUE,
                            !.result = exif_device(call.arg[1], call.arg[2])]
    /\ UNCHANGED mainvars

NextDevice == CallCleanDevice \/ CallExifDevice

SpecDevice == InitDevice /\ [][NextDevice]_vars

\* a cleaned device string: not empty, none of < > : " / \ | ? *, no
\* whitespace, no two underscores in a row, no underscore at either end
WellFormedDevice(r) ==
    /\ r # <<>>
    /\ \A i \in 1..Len(r) : r[i] \notin IllegalChars \cup WhiteSpace
    /\ \A i \in 1..(Len(r) - 1) : ~(r[i] = "_" /\ r[i + 1] = "_")
    /\ r[1] # "_" /\ r[Len(r)] # "_"

\* C18: clean_device_string returns a well-formed device string, returns
\* "default" for blank input and for input that reads "default" in any
\* case, and applying it to its result changes nothing; the device of
\* get_exif_data is "default" whenever the cleaned make or model is.
C18_CleanDevice ==
    /\ (call.fn = "clean_device_string" /\ call.done) =>
         LET s == call.arg[1]
             r == call.result
         IN  /\ WellFormedDevice(r)
             /\ (\A i \in 1..Len(s) : s[i] \in {" ", "TAB", "NUL"}) => r = Str_default
             /\ (LowerStr(Strip(s, {" ", "_"})) = Str_default) => r = Str_default
             /\ clean_device_string(r) = r
    /\ (call.fn = "exif_device" /\ call.done) =>
         /\ WellFormedDevice(call.result)
         /\ (\/ clean_device_string(call.arg[1]) = Str_default
             \/ clean_device_string(call.arg[2]) = Str_default) =>
               call.result = Str_default

C18_Witness ==
    /\ call.fn = "clean_device_string" /\ call.done
    /\ call.arg[1] = <<"C", "a", "n", "o", "n", " ", "/">>
    /\ call.result = <<"C", "a", "n", "o", "n">>

(***************************************************************************)
(* parse_date_from_filename                                                *)
(***************************************************************************)
MaxParts == 3    \* number groups in a generated file name

IsDigit(ch) == 48 <= Ord(ch) /\ Ord(ch) <= 57

\* one element of a pattern against one character
ClassMatches(c, ch) ==
    CASE c = "\\d" -> IsDigit(ch)
      [] c = "[-_.]" -> ch \in {"-", "_", "."}
      [] c = "[-_]" -> ch \in {"-", "_"}
      [] OTHER -> ch = c

\* a way a pattern can match: its elements and where the groups start
Alt(t, y, m, d) == [t |-> t, y |-> y, m |-> m, d |-> d]

Year == <<"2", "0", "\\d", "\\d">>
Two == <<"\\d", "\\d">>
Sep == <<"[-_.]">>

\* FILENAME_DATE_PATTERNS, each as the ways it can match in the order the
\* regex engine tries them
FILENAME_DATE_PATTERNS == <<
    <<Alt(Year \o Sep \o Two \o Sep \o Two, 1, 6, 9)>>,
    <<Alt(Two \o Sep \o Two \o Sep \o Year, 7, 4, 1)>>,
    <<Alt(Year \o Two \o Two, 1, 5, 7)>>,
    <<Alt(Two \o Two \o Year, 5, 3, 1)>>,
    <<Alt(<<"I", "M", "G", "[-_]">> \o Year \o Two \o Two, 5, 9, 11),
      Alt(<<"I", "M", "G">> \o Year \o Two \o Two, 4, 8, 10),
      Alt(<<"V", "I", "D", "[-_]">> \o Year \o Two \o Two, 5, 9, 11),
      Alt(<<"V", "I", "D">> \o Year \o Two \o Two, 4, 8, 10)>>
>>

MatchesAt(s, i, t) ==
    /\ i + Len(t) - 1 <= Len(s)
    /\ \A k \in 1..Len(t) : ClassMatches(t[k], s[i + k - 1])

\* int() of a string of digits
RECURSIVE ToInt(_)
ToInt(s) ==
    IF s = <<>> THEN 0
    ELSE 10 * ToInt(SubSeq(s, 1, Len(s) - 1)) + (Ord(s[Len(s)]) - 48)

\* re.search(pattern, name): <<>> or the groups <<y, m, d>> of the leftmost
\* match
RECURSIVE SearchFrom(_, _, _)
SearchFrom(s, alts, i) ==
    IF i > Len(s) THEN <<>>
    ELSE LET hits == {a \in 1..Len(alts) : MatchesAt(s, i, alts[a].t)}
         IN  IF hits = {} THEN SearchFrom(s, alts, i + 1)
             ELSE LET a == alts[CHOOSE x \in hits : \A z \in hits : x <= z]
                  IN  <<ToInt(SubSeq(s, i + a.y - 1, i + a.y + 2)),
                        ToInt(SubSeq(s, i + a.m - 1, i + a.m)),
                        ToInt(SubSeq(s, i + a.d - 1, i + a.d))>>

IsLeap(y) == (y % 4 = 0 /\ y % 100 # 0) \/ y % 400 = 0

DaysIn(y, m) ==
    IF m = 2 THEN (IF IsLeap(y) THEN 29 ELSE 28)
    ELSE IF m \in {4, 6, 9, 11} THEN 30 ELSE 31

\* datetime(y, m, d) does not raise
ValidDate(g) ==
    /\ 1 <= g[1] /\ g[1] <= 9999
    /\ 1 <= g[2] /\ g[2] <= 12
    /\ 1 <= g[3] /\ g[3] <= DaysIn(g[1], g[2])

\* os.path.splitext(filename)[0]
SplitextRoot(filename) ==
    LET dots == {i \in 1..Len(filename) : filename[i] = "."}
        last == CHOOSE i \in dots : \A j \in dots : j <= i
    IN  IF dots = {} THEN filename
        ELSE IF \A j \in 1..(last - 1) : filename[j] = "." THEN filename
        ELSE SubSeq(filename, 1, last - 1)

\* mutant: an invalid date ends the search
RECURSIVE ParseFromStop(_, _)
ParseFromStop(name, k) ==
    IF k > Len(FILENAME_DATE_PATTERNS) THEN <<>>
    ELSE LET g == SearchFrom(name, FILENAME_DATE_PATTERNS[k], 1)
         IN  IF g # <<>> THEN (IF ValidDate(g) THEN g ELSE <<>>)
             ELSE ParseFromStop(name, k + 1)

\* the loop over the patterns, from pattern k on
RECURSIVE ParseFrom(_, _)
ParseFrom(name, k) ==
    IF k > Len(FILENAME_DATE_PATTERNS) THEN <<>>
    ELSE LET g == SearchFrom(name, FILENAME_DATE_PATTERNS[k], 1)
         IN  IF g # <<>> /\ ValidDate(g) THEN g ELSE ParseFrom(name, k + 1)

\* <<>> is None
parse_date_from_filename(filename) == ParseFrom(SplitextRoot(filename), 1)

\* generated file names: prefix, number groups joined by one separator,
\* suffix, extension
NamePrefixes == {<<>>, <<"I", "M", "G", "_">>,
                 <<"p", "h", "o", "t", "o", "-">>}
NameNumbers == {<<"2", "0", "2", "3">>, <<"1", "3">>, <<"0", "5">>,
                <<"0", "4">>, <<"3", "1">>}
NameSeps == {<<>>, <<"-">>, <<".">>}
NameSuffixes == {<<>>, <<"_", "1", "0", "1", "1", "1", "2">>,
                 <<"-", "2", "0", "2", "3">>}
NameExts == {<<>>, <<".", "j", "p", "g">>, <<".", "p", "n", "g">>}

RECURSIVE Joined(_, _)
Joined(n, sep) ==
    IF n = 1 THEN NameNumbers
    ELSE {a \o sep \o b : a \in Joined(n - 1, sep), b \in NameNumbers}

FileNames ==
    {pre \o body \o suf \o ext :
        pre \in NamePrefixes,
        body \in UNION {Joined(n, sep) : n \in 1..MaxParts, sep \in NameSeps},
        suf \in NameSuffixes, ext \in NameExts}

InitParse ==
    /\ PipelineIdle
    /\ \E n \in FileNames :
         call = [fn |-> "parse_date_from_filename", arg |-> <<n>>,
                 done |-> FALSE, result |-> <<>>]

CallParseDate ==
    /\ call.fn = "parse_date_from_filename" /\ ~call.done
    /\ call' = [call EXCEPT !.done = TRUE,
                            !.result = parse_date_from_filename(call.arg[1])]
    /\ UNCHANGED mainvars

NextParse == CallParseDate

SpecParse == InitParse /\ [][NextParse]_vars

\* the patterns whose leftmost match in name is a valid date
ValidPatterns(name) ==
    {k \in 1..Len(FILENAME_DATE_PATTERNS) :
        LET g == SearchFrom(name, FILENAME_DATE_PATTERNS[k], 1)
        IN  g # <<>> /\ ValidDate(g)}

Str_IMG_name == <<"I", "M", "G", "_", "2", "0", "2", "3", "0", "4", "0", "5",
                  "_", "1", "0", "1", "1", "1", "2", ".", "j", "p", "g">>
Str_photo_name == <<"p", "h", "o", "t", "o", "-", "0", "5", "-", "0", "4", "-",
                    "2", "0", "2", "3", ".", "p", "n", "g">>

\* C17: the result is the date of the first pattern, in list order, whose
\* match is a valid calendar date, and no date when there is none;
\* IMG_20230405_101112.jpg gives 2023-04-05 and photo-05-04-2023.png gives
\* day 05, month 04, year 2023.
C17_FirstValidPattern ==
    (call.fn = "parse_date_from_filename" /\ call.done) =>
        LET name == SplitextRoot(call.arg[1])
            ok == ValidPatterns(name)
        IN  /\ ok = {} => call.result = <<>>
            /\ ok # {} =>
                 call.result =
                    SearchFrom(name,
                        FILENAME_DATE_PATTERNS[CHOOSE k \in ok : \A j \in ok : k <= j], 1)
            /\ call.arg[1] = Str_IMG_name => call.result = <<2023, 4, 5>>
            /\ call.arg[1] = Str_photo_name => call.result = <<2023, 4, 5>>

\* a name whose first pattern matches month 13 and whose second pattern
\* gives the date
C17_Witness ==
    /\ call.fn = "parse_date_from_filename" /\ call.done
    /\ call.arg[1] = <<"2", "0", "2", "3", "-", "1", "3", "-", "0", "5",
                       "-", "2", "0", "2", "3">>
    /\ call.result = <<2023, 5, 13>>

(***************************************************************************)
(* get_exif_data and get_best_date.  A file is its name, whether PIL can   *)
(* read it, its EXIF tags and its modification time; a tag is absent, the  *)
(* empty string, a string strptime rejects, or a date.  <<>> is None.      *)
(***************************************************************************)
\* the characters of the strings that occur in the model
Chars(str) ==
    CASE str = "" -> <<>>
      [] str = ".jpg" -> <<".", "j", "p", "g">>
      [] str = ".jpeg" -> <<".", "j", "p", "e", "g">>
      [] str = ".png" -> <<".", "p", "n", "g">>
      [] str = ".tiff" -> <<".", "t", "i", "f", "f">>
      [] str = ".heic" -> <<".", "h", "e", "i", "c">>
      [] str = ".bmp" -> <<".", "b", "m", "p">>
      [] str = ".JPG" -> <<".", "J", "P", "G">>
      [] str = ".MOV" -> <<".", "M", "O", "V">>
      [] str = ".txt" -> <<".", "t", "x", "t">>
      [] str = ".db" -> <<".", "d", "b">>
      [] str = ".thm" -> <<".", "t", "h", "m">>
      [] str = "S" -> <<"S">>
      [] str = "S/a" -> <<"S", "/", "a">>
      [] str = "S/a/b" -> <<"S", "/", "a", "/", "b">>
      [] str = "S/c" -> <<"S", "/", "c">>
      [] str = "photo" -> <<"p", "h", "o", "t", "o">>
      [] str = "scan" -> <<"s", "c", "a", "n">>
      [] str = "notes" -> <<"n", "o", "t", "e", "s">>
      [] str = "pic" -> <<"p", "i", "c">>
      [] str = "Thumbs" -> <<"T", "h", "u", "m", "b", "s">>
      [] str = "default" -> <<"d", "e", "f", "a", "u", "l", "t">>
      [] str = ".ds_store" -> <<".", "d", "s", "_", "s", "t", "o", "r", "e">>
      [] str = "desktop.ini" -> <<"d", "e", "s", "k", "t", "o", "p", ".", "i", "n", "i">>
      [] str = "thumbs.db" -> <<"t", "h", "u", "m", "b", "s", ".", "d", "b">>
      [] str = "._thumbs" -> <<".", "_", "t", "h", "u", "m", "b", "s">>
      [] str = ".nomedia" -> <<".", "n", "o", "m", "e", "d", "i", "a">>
      [] str = ".picasa" -> <<".", "p", "i", "c", "a", "s", "a">>
      [] str = ".db2" -> <<".", "d", "b", "2">>
      [] str = "thumbs" -> <<"t", "h", "u", "m", "b", "s">>
      [] str = "thumbs.db_old" -> <<"t", "h", "u", "m", "b", "s", ".", "d", "b", "_", "o", "l", "d">>
      [] str = "clip" -> <<"c", "l", "i", "p">>
      [] str = ".picasaoriginals" -> <<".", "p", "i", "c", "a", "s", "a", "o", "r", "i", "g", "i", "n", "a", "l", "s">>

\* IMAGE_EXT as character sequences
ImageExtChars == {Chars(e) : e \in IMAGE_EXT}

\* Path.suffix
Suffix(name) ==
    LET dots == {i \in 1..Len(name) : name[i] = "."}
        last == CHOOSE i \in dots : \A j \in dots : j <= i
    IN  IF dots = {} THEN <<>>
        ELSE IF last > 1 /\ last < Len(name) THEN SubSeq(name, last, Len(name))
        ELSE <<>>

Tag(k, dt) == [kind |-> k, date |-> dt]
NoTag == Tag("absent", <<>>)

\* datetime.strptime(date_str, "%Y:%m:%d %H:%M:%S"), None when it raises
StrpTime(t) == IF t.kind = "date" THEN t.date ELSE <<>>

\* a tag value that is truthy
TagTruthy(t) == t.kind \notin {"absent", "empty"}

get_exif_data(f) ==
    IF ~f.readable THEN <<<<>>, Str_default>>
    ELSE LET date_str == IF TagTruthy(f.tag36867) THEN f.tag36867 ELSE f.tag306
             date == IF TagTruthy(date_str) THEN StrpTime(date_str) ELSE <<>>
         IN  <<date, exif_device(f.make, f.model)>>

\* mutant: the extension is compared without .lower()
get_best_date_nolower(f) ==
    LET isImage == Suffix(f.name) \in ImageExtChars
        exif == IF isImage THEN get_exif_data(f) ELSE <<<<>>, Str_default>>
        filename_date == parse_date_from_filename(f.name)
    IN  IF isImage /\ exif[1] # <<>> THEN exif
        ELSE IF filename_date # <<>> THEN <<filename_date, exif[2]>>
        ELSE <<f.mtime, exif[2]>>

\* <<date, device>>
get_best_date(f) ==
    LET isImage == LowerStr(Suffix(f.name)) \in ImageExtChars
        exif == IF isImage THEN get_exif_data(f) ELSE <<<<>>, Str_default>>
        filename_date == parse_date_from_filename(f.name)
    IN  IF isImage /\ exif[1] # <<>> THEN exif
        ELSE IF filename_date # <<>> THEN <<filename_date, exif[2]>>
        ELSE <<f.mtime, exif[2]>>

BestDateNames == {
    <<"I", "M", "G", "_", "2", "0", "2", "3", "0", "4", "0", "5", ".", "j", "p", "g">>,
    <<"p", "h", "o", "t", "o", ".", "j", "p", "g">>,
    <<"p", "h", "o", "t", "o", ".", "J", "P", "G">>,
    <<"2", "0", "2", "3", "-", "1", "3", "-", "0", "5", ".", "p", "n", "g">>,
    <<"V", "I", "D", "2", "0", "2", "3", "0", "4", "0", "5", ".", "m", "p", "4">>,
    <<"c", "l", "i", "p", ".", "m", "o", "v">>,
    <<"I", "M", "G", ".", "H", "E", "I", "C">>}

DateA == <<2021, 1, 2>>
DateB == <<2022, 3, 4>>
DateM == <<2019, 9, 9>>

InitBestDate ==
    /\ PipelineIdle
    /\ \E n \in BestDateNames, rd \in BOOLEAN,
          t1 \in {NoTag, Tag("empty", <<>>), Tag("malformed", <<>>), Tag("date", DateA)},
          t2 \in {NoTag, Tag("malformed", <<>>), Tag("date", DateB)},
          mk \in {<<>>, <<"C", "a", "n", "o", "n">>},
          md \in {<<>>, <<"E", "O", "S">>, <<" ">>} :
         call = [fn |-> "get_best_date",
                 arg |-> <<[name |-> n, readable |-> rd, tag36867 |-> t1,
                            tag306 |-> t2, make |-> mk, model |-> md,
                            mtime |-> DateM]>>,
                 done |-> FALSE, result |-> <<>>]

CallBestDate ==
    /\ call.fn = "get_best_date" /\ ~call.done
    /\ call' = [call EXCEPT !.done = TRUE, !.result = get_best_date(call.arg[1])]
    /\ UNCHANGED mainvars

NextBestDate == CallBestDate

SpecBestDate == InitBestDate /\ [][NextBestDate]_vars

\* C13: the date is the embedded capture date (tag 36867, or tag 306 when
\* 36867 is not set) when the file is an image that can be read and the
\* tag parses; else the date in the file name when there is a valid one;
\* else the modification time.  A file that is no image, or an image that
\* cannot be read, has device "default"; there is always a result.
C13_DatePriority ==
    (call.fn = "get_best_date" /\ call.done) =>
        LET f == call.arg[1]
            image == \E e \in IMAGE_EXT : LowerStr(Suffix(f.name)) = Chars(e)
            t == IF f.tag36867.kind \in {"absent", "empty"} THEN f.tag306
                 ELSE f.tag36867
            embedded == image /\ f.readable /\ t.kind = "date"
            named == parse_date_from_filename(f.name)
        IN  /\ Len(call.result) = 2
            /\ call.result[1] # <<>>
            /\ embedded => call.result[1] = t.date
            /\ (~embedded /\ named # <<>>) => call.result[1] = named
            /\ (~embedded /\ named = <<>>) => call.result[1] = f.mtime
            /\ (~image \/ ~f.readable) => call.result[2] = Str_default

C13_Witness ==
    /\ call.fn = "get_best_date" /\ call.done
    /\ call.arg[1].name = <<"p", "h", "o", "t", "o", ".", "J", "P", "G">>
    /\ call.arg[1].readable
    /\ call.arg[1].tag36867 = NoTag
    /\ call.result = <<DateB, <<"C", "a", "n", "o", "n", "_", "E", "O", "S">>>>

(***************************************************************************)
(* detect_special_category on a file name and the directory that holds it. *)
(***************************************************************************)
SPECIAL_KEYWORDS == <<
    <<"w", "h", "a", "t", "s", "a", "p", "p">>,
    <<"s", "c", "r", "e", "e", "n", "s", "h", "o", "t">>,
    <<"s", "c", "a", "n">>,
    <<"i", "n", "s", "t", "a", "g", "r", "a", "m">>,
    <<"f", "a", "c", "e", "b", "o", "o", "k">>,
    <<"m", "e", "s", "s", "e", "n", "g", "e", "r">>,
    <<"s", "n", "a", "p", "c", "h", "a", "t">>,
    <<"t", "i", "k", "t", "o", "k">>,
    <<"w", "e", "c", "h", "a", "t">>,
    <<"t", "e", "l", "e", "g", "r", "a", "m">>>>

\* word in s
IsSubstr(word, s) ==
    \E i \in 1..(Len(s) - Len(word) + 1) : SubSeq(s, i, i + Len(word) - 1) = word

\* mutant: every keyword is looked up in the name before any in the root
detect_special_category_namefirst(name, root) ==
    LET n == LowerStr(name)
        r == LowerStr(root)
        K == 1..Len(SPECIAL_KEYWORDS)
        inName == {i \in K : IsSubstr(SPECIAL_KEYWORDS[i], n)}
        inRoot == {i \in K : IsSubstr(SPECIAL_KEYWORDS[i], r)}
        hits == IF inName # {} THEN inName ELSE inRoot
    IN  IF hits = {} THEN <<>>
        ELSE SPECIAL_KEYWORDS[CHOOSE i \in hits : \A j \in hits : i <= j]

\* mutant: the root is compared as it is spelled
detect_special_category_rootcase(name, root) ==
    LET n == LowerStr(name)
        hits == {i \in 1..Len(SPECIAL_KEYWORDS) :
                    \/ IsSubstr(SPECIAL_KEYWORDS[i], n)
                    \/ IsSubstr(SPECIAL_KEYWORDS[i], root)}
    IN  IF hits = {} THEN <<>>
        ELSE SPECIAL_KEYWORDS[CHOOSE i \in hits : \A j \in hits : i <= j]

\* the loop returns at the first word of the list found in name or root
detect_special_category(name, root) ==
    LET n == LowerStr(name)
        r == LowerStr(root)
        hits == {i \in 1..Len(SPECIAL_KEYWORDS) :
                    \/ IsSubstr(SPECIAL_KEYWORDS[i], n)
                    \/ IsSubstr(SPECIAL_KEYWORDS[i], r)}
    IN  IF hits = {} THEN <<>>
        ELSE SPECIAL_KEYWORDS[CHOOSE i \in hits : \A j \in hits : i <= j]

CategoryNames == {
    <<"I", "M", "G", "-", "2", "0", "2", "3", "0", "1", "0", "1", "-", "W", "A", "0", "0", "0", "5", ".", "j", "p", "g">>,
    <<"W", "h", "a", "t", "s", "A", "p", "p", " ", "I", "m", "a", "g", "e", ".", "j", "p", "e", "g">>,
    <<"S", "c", "r", "e", "e", "n", "s", "h", "o", "t", "_", "1", ".", "p", "n", "g">>,
    <<"s", "c", "a", "n", ".", "j", "p", "g">>,
    <<"S", "C", "A", "N", "_", "t", "e", "l", "e", "g", "r", "a", "m", ".", "j", "p", "g">>,
    <<"p", "h", "o", "t", "o", ".", "j", "p", "g">>,
    <<"t", "i", "k", "t", "o", "k", ".", "m", "p", "4">>,
    <<"i", "n", "s", "t", "a", "g", "r", "a", "m", "_", "w", "h", "a", "t", "s", "a", "p", "p", ".", "j", "p", "g">>}

CategoryRoots == {
    <<"S">>,
    <<"S", "/", "W", "h", "a", "t", "s", "A", "p", "p", " ", "I", "m", "a", "g", "e", "s">>,
    <<"S", "/", "s", "c", "a", "n", "s">>,
    <<"S", "/", "T", "e", "l", "e", "g", "r", "a", "m">>,
    <<"S", "/", "a">>,
    <<"S", "/", "S", "c", "r", "e", "e", "n", "s", "h", "o", "t", "s", "/", "w", "h", "a", "t", "s", "a", "p", "p">>,
    <<"S", "/", "I", "n", "s", "t", "a", "g", "r", "a", "m">>,
    <<"S", "/", "w", "e", "c", "h", "a", "t", "/", "F", "a", "c", "e", "b", "o", "o", "k">>,
    <<"S", "/", "m", "e", "s", "s", "e", "n", "g", "e", "r">>,
    <<"S", "/", "s", "n", "a", "p", "c", "h", "a", "t">>,
    <<"S", "/", "T", "I", "K", "T", "O", "K">>}

InitCategory ==
    /\ PipelineIdle
    /\ \E n \in CategoryNames, r \in CategoryRoots :
         call = [fn |-> "detect_special_category", arg |-> <<n, r>>,
                 done |-> FALSE, result |-> <<>>]

CallCategory ==
    /\ call.fn = "detect_special_category" /\ ~call.done
    /\ call' = [call EXCEPT !.done = TRUE,
                             !.result = detect_special_category(call.arg[1], call.arg[2])]
    /\ UNCHANGED mainvars

NextCategory == CallCategory

SpecCategory == InitCategory /\ [][NextCategory]_vars

Str_WA_name == <<"I", "M", "G", "-", "2", "0", "2", "3", "0", "1", "0", "1", "-", "W", "A", "0", "0", "0", "5", ".", "j", "p", "g">>
Str_whatsapp == <<"w", "h", "a", "t", "s", "a", "p", "p">>

\* the word occurs in s, letter case ignored
OccursIn(word, s) ==
    \E i \in 1..Len(s) :
        /\ i + Len(word) - 1 <= Len(s)
        /\ \A k \in 1..Len(word) : LowerCh(s[i + k - 1]) = word[k]

CategoryDone == call.fn = "detect_special_category" /\ call.done

\* C14 as stated: the file named IMG-20230101-WA0005.jpg has category
\* "whatsapp" in every directory.
C14_AlwaysWhatsapp ==
    (CategoryDone /\ call.arg[1] = Str_WA_name) => call.result = Str_whatsapp

\* C14: the file named IMG-20230101-WA0005.jpg has category "whatsapp"
\* exactly when the path of its directory contains "whatsapp", letter case
\* ignored; in any other directory its category is the first keyword of
\* the list found in the directory path, or "" when there is none.
C14_WhatsappFromDirectoryOnly ==
    (CategoryDone /\ call.arg[1] = Str_WA_name) =>
        LET root == call.arg[2]
            K == 1..Len(SPECIAL_KEYWORDS)
        IN  /\ call.result = Str_whatsapp <=> OccursIn(Str_whatsapp, root)
            /\ call.result = <<>> <=>
                   \A i \in K : ~OccursIn(SPECIAL_KEYWORDS[i], root)
            /\ call.result # <<>> =>
                   \E i \in K : /\ call.result = SPECIAL_KEYWORDS[i]
                                 /\ OccursIn(SPECIAL_KEYWORDS[i], root)
                                 /\ \A j \in 1..(i - 1) :
                                        ~OccursIn(SPECIAL_KEYWORDS[j], root)

C14_Witness ==
    /\ CategoryDone /\ call.arg[1] = Str_WA_name
    /\ call.arg[2] = <<"S", "/", "a">>
    /\ call.result = <<>>

\* C15: the result is the first keyword of the list that occurs, letter
\* case ignored, in the file name or in the directory path, and "" when no
\* keyword occurs in either; an earlier keyword found only in the directory
\* wins over a later one found in the name.
C15_FirstKeywordInListOrder ==
    CategoryDone =>
        LET name == call.arg[1]
            root == call.arg[2]
            K == 1..Len(SPECIAL_KEYWORDS)
            Hit(i) == \/ OccursIn(SPECIAL_KEYWORDS[i], name)
                      \/ OccursIn(SPECIAL_KEYWORDS[i], root)
        IN  IF \A i \in K : ~Hit(i) THEN call.result = <<>>
            ELSE \E i \in K : /\ call.result = SPECIAL_KEYWORDS[i]
                               /\ Hit(i)
                               /\ \A j \in 1..(i - 1) : ~Hit(j)

C15_Witness ==
    /\ CategoryDone
    /\ call.arg[1] = <<"t", "i", "k", "t", "o", "k", ".", "m", "p", "4">>
    /\ call.arg[2] = <<"S", "/", "W", "h", "a", "t", "s", "A", "p", "p", " ", "I", "m", "a", "g", "e", "s">>
    /\ call.result = Str_whatsapp

(***************************************************************************)
(* clean_filename_text and get_metadata_filename on character sequences.   *)
(* A file is its name, whether PIL can read it, and its ImageDescription,  *)
(* DocumentName and XPFilename tags; <<>> is a tag that is absent or empty.*)
(* The XPFilename tag is a str, bytes that decode as UTF-16LE to text, or  *)
(* bytes that do not decode.                                               *)
(***************************************************************************)
\* ch.isprintable()
IsPrintable(ch) == ch \notin {"NUL", "TAB"}

clean_filename_text(text) ==
    IF text = <<>> THEN <<>>
    ELSE LET t1 == SelectSeq(text, IsPrintable)
             t2 == SelectSeq(t1, LAMBDA ch : ch \notin IllegalChars)
         IN  Strip(t2, {" ", "."})

\* s.endswith(t)
EndsWith(s, t) ==
    Len(t) <= Len(s) /\ SubSeq(s, Len(s) - Len(t) + 1, Len(s)) = t

XP(k, t) == [kind |-> k, text |-> t]
NoXP == XP("absent", <<>>)

\* the name the XPFilename branch returns, <<>> when it returns none
XPFilenameBranch(f) ==
    IF f.xpfn.kind \in {"absent", "undecodable"} THEN <<>>
    ELSE LET decoded == IF f.xpfn.kind = "bytes"
                        THEN RStrip(f.xpfn.text, {"NUL"})
                        ELSE f.xpfn.text
             name == clean_filename_text(decoded)
         IN  IF name = <<>> THEN <<>>
             ELSE IF ~EndsWith(LowerStr(name), LowerStr(Suffix(f.name)))
                  THEN name \o Suffix(f.name)
                  ELSE name

metadata_filename(f) ==
    LET desc == clean_filename_text(f.desc)
        doc == clean_filename_text(f.doc)
        xp == XPFilenameBranch(f)
    IN  IF ~f.readable THEN f.name
        ELSE IF desc # <<>> THEN desc \o Suffix(f.name)
        ELSE IF doc # <<>> THEN doc \o Suffix(f.name)
        ELSE IF xp # <<>> THEN xp
        ELSE f.name

\* base_name of sort_media, on character sequences
base_name_of(f) ==
    LET new_name == metadata_filename(f)
        ext == LowerStr(Suffix(f.name))
    IN  IF EndsWith(LowerStr(new_name), ext) THEN new_name ELSE new_name \o ext

MetaNames == {<<"a", ".", "j", "p", "g">>,
              <<"I", "M", "G", ".", "J", "P", "G">>,
              <<"c", "l", "i", "p", ".", "m", "p", "4">>}

MetaDescs == {<<>>, <<"h", "o", "l", "i", "d", "a", "y">>, <<"h", "o", "l", "i", "d", "a", "y", ".", "j", "p", "g">>,
              <<"T", "r", "i", "p", ".", "J", "P", "G">>, <<" ", ".", " ">>, <<"a", ":", "b", "?">>}

MetaDocs == {<<>>, <<"d", "o", "c", "1">>, <<"d", "o", "c", ".", "j", "p", "g">>, <<"?">>}

MetaXPs == {NoXP, XP("undecodable", <<>>),
            XP("bytes", <<"x", "p", ".", "j", "p", "g", "NUL", "NUL">>),
            XP("bytes", <<"NUL">>),
            XP("str", <<"x", "p", "n", "a", "m", "e">>)}

InitMetaName ==
    /\ PipelineIdle
    /\ \E n \in MetaNames, rd \in BOOLEAN, de \in MetaDescs, dc \in MetaDocs,
          xp \in MetaXPs :
         call = [fn |-> "get_metadata_filename",
                 arg |-> <<[name |-> n, readable |-> rd, desc |-> de,
                            doc |-> dc, xpfn |-> xp]>>,
                 done |-> FALSE, result |-> <<>>]

CallMetaName ==
    /\ call.fn = "get_metadata_filename" /\ ~call.done
    /\ call' = [call EXCEPT !.done = TRUE,
                             !.result = <<metadata_filename(call.arg[1]),
                                          base_name_of(call.arg[1])>>]
    /\ UNCHANGED mainvars

NextMetaName == CallMetaName

SpecMetaName == InitMetaName /\ [][NextMetaName]_vars

\* the sanitized text of a metadata field, <<>> when the field gives none
Candidate(f, field) ==
    IF field = "desc" THEN clean_filename_text(f.desc)
    ELSE IF field = "doc" THEN clean_filename_text(f.doc)
    ELSE IF f.xpfn.kind = "bytes"
         THEN clean_filename_text(RStrip(f.xpfn.text, {"NUL"}))
    ELSE IF f.xpfn.kind = "str" THEN clean_filename_text(f.xpfn.text)
    ELSE <<>>

\* C16: the name is the first non-empty sanitized candidate (description,
\* document name, Windows file name), with the file's extension appended
\* only when the candidate does not already end with it, letter case
\* ignored; no field yields a name with the extension twice.
C16_ExtensionAppendedOnce ==
    (call.fn = "get_metadata_filename" /\ call.done /\ call.arg[1].readable) =>
        LET f == call.arg[1]
            fields == <<"desc", "doc", "xpfn">>
            nonEmpty == {i \in 1..3 : Candidate(f, fields[i]) # <<>>}
            first == CHOOSE i \in nonEmpty : \A j \in nonEmpty : i <= j
            cand == Candidate(f, fields[first])
        IN  nonEmpty # {} =>
               call.result[1] =
                   IF EndsWith(LowerStr(cand), LowerStr(Suffix(f.name)))
                   THEN cand ELSE cand \o Suffix(f.name)

(***************************************************************************)
(***************************************************************************)
(* The source tree.  SubDirs lists the directories below SOURCE_DIR;       *)
(* Parent gives the tree.                                                  *)
(***************************************************************************)
SubDirs == <<"S/a", "S/a/b", "S/c">>
Parent(d) ==
    CASE d = "S/a" -> "S"
      [] d = "S/a/b" -> "S/a"
      [] d = "S/c" -> "S"
      [] OTHER -> ""

\* a datetime, as far as make_date_path reads it
D1 == [year |-> 2023, month |-> 4, day |-> 5]

\* the str a keyword's characters spell ("" for no keyword)
KeywordStr(chars) ==
    CASE chars = <<>> -> ""
      [] chars = <<"w", "h", "a", "t", "s", "a", "p", "p">> -> "whatsapp"
      [] chars = <<"s", "c", "r", "e", "e", "n", "s", "h", "o", "t">> -> "screenshot"
      [] chars = <<"s", "c", "a", "n">> -> "scan"
      [] chars = <<"i", "n", "s", "t", "a", "g", "r", "a", "m">> -> "instagram"
      [] chars = <<"f", "a", "c", "e", "b", "o", "o", "k">> -> "facebook"
      [] chars = <<"m", "e", "s", "s", "e", "n", "g", "e", "r">> -> "messenger"
      [] chars = <<"s", "n", "a", "p", "c", "h", "a", "t">> -> "snapchat"
      [] chars = <<"t", "i", "k", "t", "o", "k">> -> "tiktok"
      [] chars = <<"w", "e", "c", "h", "a", "t">> -> "wechat"
      [] chars = <<"t", "e", "l", "e", "g", "r", "a", "m">> -> "telegram"

\* What Image.open(path).getexif() gives depends on the bytes of the file
\* alone, as its SHA-256 does: files of one digest hold the same tags.
\* The device get_exif_data makes of the Make and Model tags of a content.
ExifDevice(h) == IF h = "h4" THEN "Canon_EOS" ELSE "default"

\* The title get_metadata_filename finds in the tags of a content ("" when
\* it finds none).
MetaTitle(h) == IF h \in {"h2", "h3"} THEN "photo" ELSE ""

\* A source file.  hash is the SHA-256 of the content; device is what
\* get_best_date returns, the device of the tags for images and "default"
\* for every other file; category is what detect_special_category returns
\* for the name and its directory; date is what get_best_date resolves;
\* meta is the title get_metadata_filename reads from the content.
File(d, s, e, h, date) ==
    [dir |-> d, stem |-> s, ext |-> e, hash |-> h,
     device |-> IF Lower(e) \in IMAGE_EXT THEN ExifDevice(h) ELSE "default",
     category |-> KeywordStr(detect_special_category(Chars(s) \o Chars(e), Chars(d))),
     date |-> date, meta |-> MetaTitle(h)]

\* The files a source tree is drawn from.
Pool == <<
    File("S",     "photo",   ".jpg", "h1", D1),
    File("S",     "scan",    ".MOV", "h2", D1),
    File("S/a",   "photo",   ".jpg", "h4", D1),
    File("S/a",   "notes",   ".txt", "h6", D1),
    File("S/a/b", "photo",   ".jpg", "h2", D1),
    File("S/a/b", "Thumbs",  ".db",  "h7", D1),
    File("S/c",   "pic",     ".jpg", "h3", D1)
>>

Entry(d, s, e, h) == [dir |-> d, stem |-> s, ext |-> e, hash |-> h]

\* Files an earlier run or the operator may have left in the output tree.
PrePool == {
    Entry("OUT/default/2023/04/05", "photo", ".jpg", "h0"),
    Entry("OUT", "notes", ".txt", "h0"),
    Entry("OUT", "notes_DUP", ".txt", "h0"),
    Entry("OUT", "Canon_EOS", "", "h0")
}

HEADER == [kind |-> "header", src |-> "Source", dest |-> "Destination",
           device |-> "Device", category |-> "Category", date |-> "Date",
           hash |-> "Hash", duplicate |-> "Duplicate",
           fixed |-> "TimestampFixed"]

OldRow == [kind |-> "row", src |-> "old", dest |-> "old", device |-> "default",
           category |-> "", date |-> "2020/01/01", hash |-> "h0",
           duplicate |-> "False", fixed |-> "NO"]

(***************************************************************************)
(* Paths                                                                   *)
(***************************************************************************)
PathOf(f) == [dir |-> f.dir, stem |-> f.stem, ext |-> f.ext]

\* a directory of the output tree, as an entry of its parent
DirEntry(parent, name) == [dir |-> parent, stem |-> name, ext |-> "", hash |-> "dir"]
IsDir(x) == x.hash = "dir"

\* Path.exists() in the output tree: true of a file and of a directory
Exists(o, d, s, e) == \E x \in o : x.dir = d /\ x.stem \o x.ext = s \o e

\* Path.mkdir(parents=True, exist_ok=True) of base/parts[1]/.../parts[n]:
\* the tree afterwards; it stops at a level that exists as a file
RECURSIVE MkdirP(_, _, _)
MkdirP(o, base, parts) ==
    IF parts = <<>> THEN o
    ELSE IF \E x \in o : x.dir = base /\ x.stem \o x.ext = Head(parts) /\ ~IsDir(x)
         THEN o
    ELSE MkdirP(IF Exists(o, base, Head(parts), "") THEN o
                ELSE o \cup {DirEntry(base, Head(parts))},
                base \o "/" \o Head(parts), Tail(parts))

\* that mkdir raises FileExistsError: some level exists as a file
RECURSIVE MkdirRaises(_, _, _)
MkdirRaises(o, base, parts) ==
    IF parts = <<>> THEN FALSE
    ELSE IF \E x \in o : x.dir = base /\ x.stem \o x.ext = Head(parts) /\ ~IsDir(x)
         THEN TRUE
    ELSE MkdirRaises(o, base \o "/" \o Head(parts), Tail(parts))

\* is directory d the directory top or below it
RECURSIVE Below(_, _)
Below(d, top) ==
    IF d = top THEN TRUE
    ELSE IF Parent(d) = "" THEN FALSE
    ELSE Below(Parent(d), top)

\* os.walk passes over a directory whose scandir raises (onerror=None),
\* and with it over everything below: is the file f passed over when the
\* directories in closed cannot be listed
PassedOver(f, closed) == \E d \in closed : Below(f.dir, d)

\* os.walk(SOURCE_DIR): the files present in the directories that can be
\* listed, in listing order
Listing(present, closed) ==
    SelectSeq(walk, LAMBDA f : f \in present /\ ~PassedOver(f, closed))

\* the sets of directories that cannot be listed; none lies below another,
\* since what lies below such a directory is never visited
Unlistables ==
    {u \in SUBSET ({SOURCE_DIR} \cup {SubDirs[i] : i \in 1..Len(SubDirs)}) :
        \A d, e \in u : d # e => ~Below(d, e)}

\* ext = file.suffix.lower(); ext in IMAGE_EXT | VIDEO_EXT
IsMedia(f) == Lower(f.ext) \in (IMAGE_EXT \cup VIDEO_EXT)

\* shutil.move onto a path: the entry at that path is replaced
Put(o, e) ==
    {x \in o : ~(x.dir = e.dir /\ x.stem \o x.ext = e.stem \o e.ext)} \cup {e}

(***************************************************************************)
(* init_log                                                                *)
(***************************************************************************)
\* os.path.exists(LOG_FILE) inside the `with open(LOG_FILE, "a")` block:
\* opening for append has created the file
ExistsAfterOpenAppend(existed) == TRUE

\* the rows of LOG_FILE after init_log
init_log_rows(existed, rows) ==
    IF ~ExistsAfterOpenAppend(existed) THEN <<HEADER>> ELSE rows

init_log ==
    /\ phase = "init_log"
    /\ \E opened \in BOOLEAN :
         IF opened
         THEN /\ logExists' = TRUE
              /\ log' = init_log_rows(logExists, IF logExists THEN log ELSE <<>>)
              /\ phase' = "sort"
              /\ todo' = Listing(src, unlistable)
         ELSE /\ phase' = "aborted"
              /\ UNCHANGED <<logExists, log, todo>>
    /\ UNCHANGED <<src, dirs, walk, out, seen_hashes, step, cur, exiftool,
                   enableFix, invocations, run, moved, failed, deleted,
                   clean1, log0>>
    /\ UNCHANGED <<rmdir_failed, call, unlistable>>

(***************************************************************************)
(* sort_media                                                              *)
(***************************************************************************)
\* f"{n:02d}" and f"{n:04d}"
Pad2(n) == IF n < 10 THEN "0" \o ToString(n) ELSE ToString(n)
Pad4(n) ==
    IF n < 10 THEN "000" \o ToString(n)
    ELSE IF n < 100 THEN "00" \o ToString(n)
    ELSE IF n < 1000 THEN "0" \o ToString(n)
    ELSE ToString(n)

\* the directories below base_dir that make_date_path names
DatePathParts(device, date, category) ==
    IF category # ""
    THEN <<device, category, Pad4(date.year), Pad2(date.month), Pad2(date.day)>>
    ELSE <<device, Pad4(date.year), Pad2(date.month), Pad2(date.day)>>

\* the output tree after target.mkdir(parents=True, exist_ok=True)
make_date_path_tree(o, base_dir, device, date, category) ==
    MkdirP(o, base_dir, DatePathParts(device, date, category))

\* the path make_date_path returns
make_date_path(base_dir, device, date, category) ==
    LET ymd == Pad4(date.year) \o "/" \o Pad2(date.month) \o "/" \o Pad2(date.day)
    IN  IF category # ""
        THEN base_dir \o "/" \o device \o "/" \o category \o "/" \o ymd
        ELSE base_dir \o "/" \o device \o "/" \o ymd

\* the name get_metadata_filename returns: the metadata title with the
\* file's suffix, or the file's own name
get_metadata_filename(f) ==
    IF f.meta # "" THEN [stem |-> f.meta, ext |-> f.ext]
    ELSE [stem |-> f.stem, ext |-> f.ext]

\* base_name = new_name if new_name.lower().endswith(ext) else new_name + ext
base_name(new_name, ext) ==
    IF Lower(new_name.ext) = ext THEN new_name
    ELSE [stem |-> new_name.stem \o new_name.ext, ext |-> ext]

\* filehash in seen_hashes
IsSeen(seen, h) == \E e \in seen : e.hash = h

\* mutant: the existence loop is never entered
DupLoopNever(o, d, stem, suffix, target_stem, count) == target_stem

\* while target_file.exists(): target_file = stem_DUP_{count}; count += 1
RECURSIVE DupLoop(_, _, _, _, _, _)
DupLoop(o, d, stem, suffix, target_stem, count) ==
    IF Exists(o, d, target_stem, suffix)
    THEN DupLoop(o, d, stem, suffix, stem \o "_DUP_" \o ToString(count), count + 1)
    ELSE target_stem

\* mutant: _DUP is tried first whether or not the file is a duplicate
ResolveTargetDupFirst(o, d, name, duplicate) ==
    IF Exists(o, d, name.stem, name.ext)
    THEN DupLoop(o, d, name.stem, name.ext, name.stem \o "_DUP", 1)
    ELSE name.stem

\* mutant: the plain _DUP name is never tried
ResolveTargetNumbered(o, d, name, duplicate) ==
    IF Exists(o, d, name.stem, name.ext)
    THEN DupLoop(o, d, name.stem, name.ext, name.stem, 1)
    ELSE name.stem

\* the collision step of sort_media: the stem of the final target_file
ResolveTarget(o, d, name, duplicate) ==
    IF Exists(o, d, name.stem, name.ext)
    THEN LET first == IF ~duplicate THEN name.stem \o "_DUP" ELSE name.stem
         IN  DupLoop(o, d, name.stem, name.ext, first, 1)
    ELSE name.stem

\* the target_file sort_media chooses for file f
TargetFile(o, seen, f) ==
    LET d == make_date_path(OUTPUT_DIR, f.device, f.date, f.category)
        name == base_name(get_metadata_filename(f), Lower(f.ext))
    IN  [dir |-> d, stem |-> ResolveTarget(o, d, name, IsSeen(seen, f.hash)),
         ext |-> name.ext]

\* the desired target_file, before the collision step
DesiredFile(f) ==
    LET name == base_name(get_metadata_filename(f), Lower(f.ext))
    IN  [dir |-> make_date_path(OUTPUT_DIR, f.device, f.date, f.category),
         stem |-> name.stem, ext |-> name.ext]

\* if ext not in IMAGE_EXT | VIDEO_EXT: continue
SortSkip ==
    /\ phase = "sort" /\ step = "next" /\ todo # <<>>
    /\ ~IsMedia(Head(todo))
    /\ todo' = Tail(todo)
    /\ UNCHANGED <<src, dirs, walk, out, logExists, log, seen_hashes, phase,
                   step, cur, exiftool, enableFix, invocations, run, moved,
                   failed, deleted, clean1, log0>>
    /\ UNCHANGED <<rmdir_failed, call, unlistable>>

\* the content left at the destination by a copy that raised on the way
Truncated(h) == h \o "-cut"

\* from get_best_date to shutil.move for one media file.  Nothing in
\* sort_media catches an exception, so one ends the script: before
\* make_date_path (stat, hashing), in target.mkdir with only the first
\* levels of the target directory made, in the print or in shutil.move
\* before anything was written, in shutil.move's copy with only a part of
\* the content written, or in shutil.move after the copy was written and
\* before the source was removed.  make_date_path raises when a level of
\* the target directory exists as a file.
SortMove ==
    /\ phase = "sort" /\ step = "next" /\ todo # <<>>
    /\ IsMedia(Head(todo))
    /\ LET f == Head(todo)
           duplicate == IsSeen(seen_hashes, f.hash)
           parts == DatePathParts(f.device, f.date, f.category)
           blocked == MkdirRaises(out, OUTPUT_DIR, parts)
           tree == make_date_path_tree(out, OUTPUT_DIR, f.device, f.date, f.category)
           target_file == TargetFile(tree, seen_hashes, f)
           placed == Put(tree, Entry(target_file.dir, target_file.stem,
                                     target_file.ext, f.hash))
           partial == Put(tree, Entry(target_file.dir, target_file.stem,
                                      target_file.ext, Truncated(f.hash)))
       IN  \E outcome \in {"moved", "raise_early", "raise_mkdir", "raise_move",
                            "raise_partial", "raise_copied"},
              levels \in 1..(Len(parts) - 1) :
             /\ blocked => outcome \in {"raise_early", "raise_mkdir", "raise_move"}
             /\ outcome # "raise_mkdir" => levels = 1
             /\ IF outcome = "moved"
                THEN /\ src' = src \ {f}
                     /\ out' = placed
                     /\ cur' = <<[file |-> f, target_file |-> target_file,
                                  duplicate |-> duplicate, timestamp_fixed |-> FALSE]>>
                     /\ moved' = Append(moved, [file |-> f, dest |-> target_file,
                                                pass |-> "sort", pre |-> tree,
                                                duplicate |-> duplicate])
                     /\ step' = "repair"
                     /\ UNCHANGED <<phase, failed>>
                ELSE /\ phase' = "aborted"
                     /\ failed' = failed \cup {[file |-> f, pass |-> "sort"]}
                     /\ out' = CASE outcome = "raise_early" -> out
                                 [] outcome = "raise_mkdir" ->
                                      MkdirP(out, OUTPUT_DIR, SubSeq(parts, 1, levels))
                                 [] outcome = "raise_move" -> tree
                                 [] outcome = "raise_partial" -> partial
                                 [] outcome = "raise_copied" -> placed
                     /\ UNCHANGED <<src, cur, moved, step>>
    /\ UNCHANGED <<dirs, walk, todo, logExists, log, seen_hashes, exiftool,
                   enableFix, invocations, run, deleted, clean1, log0>>
    /\ UNCHANGED <<rmdir_failed, call, unlistable>>

\* apply_correct_dates: the pair <<exiftool was invoked, return value>> for
\* an exiftool run whose exit status is 0 exactly when rc0 holds
apply_correct_dates(available, rc0) ==
    IF ~available THEN <<FALSE, FALSE>> ELSE <<TRUE, rc0>>

\* print("Correcting date ..."), which ends the script when it raises,
\* then timestamp_fixed = apply_correct_dates(target_file, date)
SortRepair ==
    /\ phase = "sort" /\ step = "repair"
    /\ \E printed \in BOOLEAN :
         IF printed
         THEN /\ \E rc0 \in BOOLEAN :
                   LET r == apply_correct_dates(exiftool, rc0)
                   IN  /\ invocations' = IF r[1] THEN invocations + 1
                                         ELSE invocations
                       /\ cur' = <<[cur[1] EXCEPT !.timestamp_fixed = r[2]]>>
              /\ step' = "log"
              /\ UNCHANGED phase
         ELSE /\ phase' = "aborted"
              /\ UNCHANGED <<invocations, cur, step>>
    /\ UNCHANGED <<src, dirs, walk, todo, out, logExists, log, seen_hashes,
                   exiftool, enableFix, run, moved, failed, deleted,
                   clean1, log0>>
    /\ UNCHANGED <<rmdir_failed, call, unlistable>>

\* truth value of a Python str
Truthy(s) == s # ""

\* the row log_move appends; duplicate is a bool, timestamp_fixed is the
\* argument as passed
log_move(source, dest, device, category, date, filehash, duplicate, timestamp_fixed) ==
    [kind |-> "row", src |-> source, dest |-> dest, device |-> device,
     category |-> category, date |-> date, hash |-> filehash,
     duplicate |-> IF duplicate THEN "True" ELSE "False",
     fixed |-> IF Truthy(timestamp_fixed) THEN "YES" ELSE "NO"]

\* the log_move call of sort_media: its last argument is the literal 'false'
SortLogRow(c) ==
    log_move(PathOf(c.file), c.target_file, c.file.device, c.file.category,
             c.file.date, c.file.hash, c.duplicate, "false")

\* the file ends in a part of a row, with no line end
EndsOpen(rows) == rows # <<>> /\ rows[Len(rows)].kind = "cut"

\* the lines of LOG_FILE after the text of row, or only a part of it when
\* the write fails on the way, is added at the end of the file
AppendText(rows, row, whole) ==
    IF EndsOpen(rows)
    THEN [rows EXCEPT ![Len(rows)] =
             [kind |-> IF whole THEN "glued" ELSE "cut",
              parts |-> Append(@.parts, row)]]
    ELSE Append(rows, IF whole THEN row ELSE [kind |-> "cut", parts |-> <<row>>])

\* log_move: open(LOG_FILE, "a") raises, or the write fails with a part of
\* the row in the file, or the row is written; the first two end the script
SortLog ==
    /\ phase = "sort" /\ step = "log"
    /\ \E written \in {"nothing", "part", "row"} :
         IF written = "row"
         THEN /\ log' = AppendText(log, SortLogRow(cur[1]), TRUE)
              /\ step' = "index"
              /\ UNCHANGED <<phase, failed>>
         ELSE /\ phase' = "aborted"
              /\ failed' = failed \cup {[file |-> cur[1].file, pass |-> "log"]}
              /\ log' = IF written = "part"
                        THEN AppendText(log, SortLogRow(cur[1]), FALSE)
                        ELSE log
              /\ UNCHANGED step
    /\ UNCHANGED <<src, dirs, walk, todo, out, logExists, seen_hashes,
                   cur, exiftool, enableFix, invocations, run, moved,
                   deleted, clean1, log0>>
    /\ UNCHANGED <<rmdir_failed, call, unlistable>>

\* mutant: the digest is not recorded
IndexPutNothing(seen, h, path) == seen

\* mutant: the index keeps only the digest just recorded
IndexPutOnlyLast(seen, h, path) == {[hash |-> h, path |-> path]}

\* seen_hashes[filehash] = target_file
IndexPut(seen, h, path) ==
    {e \in seen : e.hash # h} \cup {[hash |-> h, path |-> path]}

SortIndex ==
    /\ phase = "sort" /\ step = "index"
    /\ seen_hashes' = IndexPut(seen_hashes, cur[1].file.hash, cur[1].target_file)
    /\ cur' = <<>>
    /\ todo' = Tail(todo)
    /\ step' = "next"
    /\ UNCHANGED <<src, dirs, walk, out, logExists, log, phase, exiftool,
                   enableFix, invocations, run, moved, failed, deleted,
                   clean1, log0>>
    /\ UNCHANGED <<rmdir_failed, call, unlistable>>

\* the traversal is exhausted: print("Sorting completed!") and
\* print("Moving leftover non-media files..."), which end the script when
\* they raise, then main goes on
SortDone ==
    /\ phase = "sort" /\ step = "next" /\ todo = <<>>
    /\ \E printed \in BOOLEAN :
         IF printed
         THEN /\ phase' = "leftover"
              /\ todo' = Listing(src, unlistable)
         ELSE /\ phase' = "aborted"
              /\ UNCHANGED todo
    /\ UNCHANGED <<src, dirs, walk, out, logExists, log, seen_hashes, step,
                   cur, exiftool, enableFix, invocations, run, moved, failed,
                   deleted, clean1, log0>>
    /\ UNCHANGED <<rmdir_failed, call, unlistable>>

(***************************************************************************)
(* move_remaining_non_media_files                                          *)
(***************************************************************************)
\* the destination chosen for a leftover file named (stem, ext)
LeftoverDest(o, stem, suffix) ==
    IF Exists(o, OUTPUT_DIR, stem, suffix)
    THEN [dir |-> OUTPUT_DIR,
          stem |-> DupLoop(o, OUTPUT_DIR, stem, suffix, stem \o "_DUP", 1),
          ext |-> suffix]
    ELSE [dir |-> OUTPUT_DIR, stem |-> stem, ext |-> suffix]

\* does the leftover pass take this file (every file: the skips are
\* commented out)
LeftoverTakes(f) == TRUE

\* one iteration of the loop.  A raising shutil.move is caught and printed,
\* whether it wrote nothing, a part of the copy or the whole copy at dest;
\* the print of the handler, the print before the move and
\* dest.parent.mkdir are outside the try, so their exceptions end the
\* script.
LeftoverStep ==
    /\ phase = "leftover" /\ todo # <<>>
    /\ LET f == Head(todo)
           dest == LeftoverDest(out, f.stem, f.ext)
           placed == Put(out, Entry(dest.dir, dest.stem, dest.ext, f.hash))
           partial == Put(out, Entry(dest.dir, dest.stem, dest.ext,
                                     Truncated(f.hash)))
       IN  IF ~LeftoverTakes(f)
           THEN /\ todo' = Tail(todo)
                /\ UNCHANGED <<src, out, moved, failed, phase>>
           ELSE \E outcome \in {"moved", "raise_move", "raise_partial",
                                 "raise_copied", "raise_mkdir"},
                   printed \in BOOLEAN :
                /\ outcome \in {"moved", "raise_mkdir"} => printed
                /\ CASE outcome = "moved" ->
                         /\ src' = src \ {f}
                         /\ out' = placed
                         /\ moved' = Append(moved, [file |-> f, dest |-> dest,
                                                    pass |-> "leftover", pre |-> out,
                                                    duplicate |-> FALSE])
                         /\ todo' = Tail(todo)
                         /\ UNCHANGED <<failed, phase>>
                    [] outcome \in {"raise_move", "raise_partial", "raise_copied"} ->
                         /\ failed' = failed \cup {[file |-> f, pass |-> "leftover"]}
                         /\ out' = CASE outcome = "raise_move" -> out
                                     [] outcome = "raise_partial" -> partial
                                     [] outcome = "raise_copied" -> placed
                         /\ IF printed
                            THEN todo' = Tail(todo) /\ UNCHANGED phase
                            ELSE phase' = "aborted" /\ UNCHANGED todo
                         /\ UNCHANGED <<src, moved>>
                    [] outcome = "raise_mkdir" ->
                         /\ failed' = failed \cup {[file |-> f, pass |-> "mkdir"]}
                         /\ phase' = "aborted"
                         /\ UNCHANGED <<src, out, moved, todo>>
    /\ UNCHANGED <<dirs, walk, logExists, log, seen_hashes, step, cur,
                   exiftool, enableFix, invocations, run, deleted, clean1, log0>>
    /\ UNCHANGED <<rmdir_failed, call, unlistable>>

\* the traversal is exhausted: print("Cleaning junk files..."), which ends
\* the script when it raises, then main goes on
LeftoverDone ==
    /\ phase = "leftover" /\ todo = <<>>
    /\ \E printed \in BOOLEAN :
         IF printed
         THEN /\ phase' = "junk"
              /\ todo' = Listing(src, unlistable)
         ELSE /\ phase' = "aborted"
              /\ UNCHANGED todo
    /\ UNCHANGED <<src, dirs, walk, out, logExists, log, seen_hashes, step,
                   cur, exiftool, enableFix, invocations, run, moved, failed,
                   deleted, clean1, log0>>
    /\ UNCHANGED <<rmdir_failed, call, unlistable>>

(***************************************************************************)
(* delete_junk_files                                                       *)
(***************************************************************************)
junk_exact == {".ds_store", "desktop.ini", "thumbs.db", "._thumbs",
               ".nomedia", ".picasa", ".picasaoriginals"}

\* s.startswith(t)
StartsWith(s, t) == Len(t) <= Len(s) /\ SubSeq(s, 1, Len(t)) = t

\* lower in junk_exact, lower.startswith("thumbs.db"), lower.endswith(".thm")
IsJunk(f) ==
    LET lower == LowerStr(Chars(f.stem) \o Chars(f.ext))
    IN  \/ lower \in {Chars(j) : j \in junk_exact}
        \/ StartsWith(lower, Chars("thumbs.db"))
        \/ EndsWith(lower, Chars(".thm"))

\* one iteration of the loop; a raising unlink is swallowed
JunkStep ==
    /\ phase = "junk" /\ todo # <<>>
    /\ LET f == Head(todo)
       IN  IF ~IsJunk(f)
           THEN UNCHANGED <<src, deleted, failed>>
           ELSE \E ok \in BOOLEAN :
                  IF ok
                  THEN /\ src' = src \ {f}
                       /\ deleted' = deleted \cup {f}
                       /\ UNCHANGED failed
                  ELSE /\ failed' = failed \cup {[file |-> f, pass |-> "junk"]}
                       /\ UNCHANGED <<src, deleted>>
    /\ todo' = Tail(todo)
    /\ UNCHANGED <<dirs, walk, out, logExists, log, seen_hashes, phase, step,
                   cur, exiftool, enableFix, invocations, run, moved, clean1,
                   log0>>
    /\ UNCHANGED <<rmdir_failed, call, unlistable>>

\* the traversal is exhausted: print("Removing empty folders..."), which
\* ends the script when it raises, then main goes on
JunkDone ==
    /\ phase = "junk" /\ todo = <<>>
    /\ phase' \in {"prune", "aborted"}
    /\ UNCHANGED <<src, dirs, walk, todo, out, logExists, log, seen_hashes,
                   step, cur, exiftool, enableFix, invocations, run, moved,
                   failed, deleted, clean1, log0>>
    /\ UNCHANGED <<rmdir_failed, call, unlistable>>

(***************************************************************************)
(* delete_empty_folders                                                    *)
(***************************************************************************)
\* os.walk(base_path, topdown=False): children are visited before parents
PruneOrder == <<"S/a/b", "S/a", "S/c">>

\* mutant: only sub-directories count as entries
IsEmptyDirNoFiles(present, ds, d) == \A c \in ds : Parent(c) # d

\* not any(p.iterdir())
IsEmptyDir(present, ds, d) ==
    /\ \A f \in present : f.dir # d
    /\ \A c \in ds : Parent(c) # d

\* for d in dirs: os.walk yields d as an entry of its parent, which it
\* does when it can list the parent and every directory above it
Yielded(d, closed) == \A e \in closed : e = d \/ ~Below(d, e)

\* p.iterdir() returns and finds nothing: the try block goes on to rmdir
Tried(present, ds, d, closed) ==
    /\ d \in ds /\ Yielded(d, closed) /\ d \notin closed
    /\ IsEmptyDir(present, ds, d)

\* one bottom-up pass over the directories listed in order[i..]; rmdir
\* raises for the directories in fail, which is swallowed, as is iterdir
\* raising for a directory in closed
RECURSIVE PrunePassFrom(_, _, _, _, _, _)
PrunePassFrom(present, ds, order, i, fail, closed) ==
    IF i > Len(order) THEN ds
    ELSE LET d == order[i]
             rm == Tried(present, ds, d, closed) /\ d \notin fail
         IN  PrunePassFrom(present, IF rm THEN ds \ {d} ELSE ds, order, i + 1,
                           fail, closed)

\* the directories of fail whose rmdir that pass attempts
RECURSIVE PruneRaised(_, _, _, _, _, _)
PruneRaised(present, ds, order, i, fail, closed) ==
    IF i > Len(order) THEN {}
    ELSE LET d == order[i]
             try == Tried(present, ds, d, closed)
             rm == try /\ d \notin fail
         IN  (IF try /\ d \in fail THEN {d} ELSE {})
             \cup PruneRaised(present, IF rm THEN ds \ {d} ELSE ds, order, i + 1,
                              fail, closed)

\* one turn of `while removed`; rmdir raises for the directories in fail
PrunePass ==
    /\ phase = "prune"
    /\ \E fail \in SUBSET dirs :
         LET after == PrunePassFrom(src, dirs, PruneOrder, 1, fail, unlistable)
         IN  /\ fail = PruneRaised(src, dirs, PruneOrder, 1, fail, unlistable)
             /\ dirs' = after
             /\ phase' = IF after # dirs THEN "prune" ELSE "done"
             /\ rmdir_failed' = (rmdir_failed \/ fail # {})
    /\ UNCHANGED <<src, walk, todo, out, logExists, log, seen_hashes, step,
                   cur, exiftool, enableFix, invocations, run, moved, failed,
                   deleted, clean1, log0, call, unlistable>>

(***************************************************************************)
(* __main__ after delete_empty_folders                                     *)
(***************************************************************************)
\* print("Done."): the script dies at its last statement when it raises
MainEnd ==
    /\ phase = "done"
    /\ phase' = "aborted"
    /\ UNCHANGED <<src, dirs, walk, todo, out, logExists, log, seen_hashes,
                   step, cur, exiftool, enableFix, invocations, run, moved,
                   failed, deleted, clean1, log0>>
    /\ UNCHANGED <<rmdir_failed, call, unlistable>>

(***************************************************************************)
(* The script is started again, after it ended or died on an exception     *)
(***************************************************************************)
Rerun ==
    /\ phase \in {"done", "aborted"}
    /\ run = "first"
    /\ run' = "second"
    /\ phase' = "init_log"
    /\ step' = "next"
    /\ cur' = <<>>
    /\ todo' = <<>>
    /\ seen_hashes' = {}
    /\ moved' = <<>>
    /\ failed' = {}
    /\ deleted' = {}
    /\ clean1' = (phase = "done" /\ failed = {})
    /\ log0' = Len(log)
    /\ rmdir_failed' = FALSE
    /\ unlistable' \in Unlistables
    /\ UNCHANGED <<src, dirs, walk, out, logExists, log, exiftool, enableFix,
                   invocations, call>>

(***************************************************************************)
(* Specification                                                           *)
(***************************************************************************)
PoolSet == {Pool[i] : i \in 1..Len(Pool)}

\* os.walk(SOURCE_DIR) is top-down: the files of a directory, then its
\* sub-directories one after the other, each with all that is below it.
\* The order inside a directory is os.scandir's, which the code does not
\* sort: any order of the files, and either order of S/a and S/c.
DirOrders == {<<"S", "S/a", "S/a/b", "S/c">>, <<"S", "S/c", "S/a", "S/a/b">>}

Pos(order, d) == CHOOSE i \in 1..Len(order) : order[i] = d

WalkOrders(chosen) ==
    LET n == Cardinality(chosen)
    IN  {w \in [1..n -> chosen] :
            /\ \A i, j \in 1..n : i # j => w[i] # w[j]
            /\ \E order \in DirOrders :
                  \A i, j \in 1..n :
                     i < j => Pos(order, w[i].dir) <= Pos(order, w[j].dir)}

\* the output tree that holds the file e, with its directories
PreTree(e) ==
    IF e.dir = OUTPUT_DIR THEN {e}
    ELSE {e} \cup make_date_path_tree({}, OUTPUT_DIR, "default", D1, "")

\* the output trees the script may find: none, or the files of PrePool in
\* their places
PreTrees == {{}, UNION {PreTree(e) : e \in PrePool}}

InitAny ==
    /\ \E chosen \in SUBSET PoolSet :
         /\ Cardinality(chosen) <= MaxFiles
         /\ src = chosen
         /\ walk \in WalkOrders(chosen)
    /\ dirs = {SubDirs[i] : i \in 1..Len(SubDirs)}
    /\ todo = <<>>
    /\ out \in PreTrees
    /\ \E l \in {<<FALSE, <<>> >>, <<TRUE, <<HEADER, OldRow>> >>} :
         /\ logExists = l[1]
         /\ log = l[2]
    /\ seen_hashes = {}
    /\ phase = "init_log"
    /\ step = "next"
    /\ cur = <<>>
    /\ exiftool \in BOOLEAN
    /\ enableFix \in BOOLEAN
    /\ invocations = 0
    /\ run = "first"
    /\ moved = <<>>
    /\ failed = {}
    /\ deleted = {}
    /\ clean1 = FALSE
    /\ log0 = Len(log)
    /\ rmdir_failed = FALSE
    /\ unlistable \in Unlistables
    /\ call = <<>>

\* ENABLE_TIMESTAMP_FIX = True, as the source sets it
Init == InitAny /\ enableFix

Next ==
    \/ init_log
    \/ SortSkip
    \/ SortMove
    \/ SortRepair
    \/ SortLog
    \/ SortIndex
    \/ SortDone
    \/ LeftoverStep
    \/ LeftoverDone
    \/ JunkStep
    \/ JunkDone
    \/ PrunePass
    \/ MainEnd

\* one execution of the script, from any starting condition
Spec == Init /\ [][Next]_vars

\* two executions one after the other: the first from any starting
\* condition, the second finds what the first left
InitRerun ==
    /\ Init
    /\ Cardinality(src) <= MaxRerunFiles

NextRerun ==
    \/ Next
    \/ Rerun

SpecRerun == InitRerun /\ [][NextRerun]_vars

\* one execution with ENABLE_TIMESTAMP_FIX edited to either value
InitToggle ==
    /\ InitAny
    /\ out = {}
    /\ ~logExists

SpecToggle == InitToggle /\ [][Next]_vars

(***************************************************************************)
(* Properties                                                              *)
(***************************************************************************)
\* the desired target_file of every file of the pool
Desired == [f \in PoolSet |-> DesiredFile(f)]

SortMoves == {i \in 1..Len(moved) : moved[i].pass = "sort"}
LeftoverMoves == {i \in 1..Len(moved) : moved[i].pass = "leftover"}
RunLines == (log0 + 1)..Len(log)
RunRows == {k \in RunLines : log[k].kind = "row"}
AfterSort == phase \in {"leftover", "junk", "prune", "done"}
AfterLeftover == phase \in {"junk", "prune", "done"}

\* the k-th name of the sequence stem_DUP, stem_DUP_1, stem_DUP_2, ...
Cand(stem, k) ==
    IF k = 0 THEN stem \o "_DUP" ELSE stem \o "_DUP_" \o ToString(k)

\* the first name of that sequence, from position k0 on, that is free in o
\* (the entries of d cannot take more names than there are of them)
FirstFreeFrom(o, d, stem, ext, k0) ==
    LET n == Cardinality({x \in o : x.dir = d})
        free == {k \in k0..(k0 + n) : ~Exists(o, d, Cand(stem, k), ext)}
    IN  Cand(stem, CHOOSE k \in free : \A j \in free : k <= j)

\* the output tree when the current run made its first move
RunStartOut == IF moved = <<>> THEN out ELSE moved[1].pre

\* C1: every sort_media move goes to a path that did not exist when the
\* move happened, and no two files of the run get the same target path.
C1_TargetFreeAndDistinct ==
    /\ \A i \in SortMoves :
         ~Exists(moved[i].pre, moved[i].dest.dir, moved[i].dest.stem, moved[i].dest.ext)
    /\ \A i, j \in SortMoves : i # j => moved[i].dest # moved[j].dest

C1_Witness ==
    \E i, j \in SortMoves :
        /\ i < j
        /\ Desired[moved[i].file] = Desired[moved[j].file]
        /\ moved[j].duplicate

\* C2: once sort_media has run to completion no media file is left in the
\* source tree, every media file the tree held at the first start was moved
\* by sort_media exactly once, and a moved file is gone from its source path.
C2_EveryMediaMovedOnce ==
    /\ AfterSort => \A f \in src : ~IsMedia(f)
    /\ (AfterSort /\ run = "first") =>
         \A k \in 1..Len(walk) :
            (Lower(walk[k].ext) \in (IMAGE_EXT \cup VIDEO_EXT)) =>
               Cardinality({i \in SortMoves : moved[i].file = walk[k]}) = 1
    /\ \A i, j \in 1..Len(moved) : i # j => moved[i].file # moved[j].file
    /\ \A i \in 1..Len(moved) : moved[i].file \notin src

\* C3: the duplicate flag of an audit row of this run is true exactly when
\* an earlier row of the run carries the same digest.
C3_DuplicateFlag ==
    \A k \in RunRows :
        (log[k].duplicate = "True") <=>
            (\E j \in RunRows : j < k /\ log[j].hash = log[k].hash)

C3_Witness ==
    \E j, k \in RunRows :
        /\ j < k /\ log[j].hash = log[k].hash
        /\ log[j].duplicate = "False" /\ log[k].duplicate = "True"

\* C4: a move that fails in sort_media does not end the run.
C4_MoveFailureContinues ==
    (\E x \in failed : x.pass = "sort") => phase # "aborted"

\* C5 as stated: a known duplicate whose desired path exists gets the first
\* free name of stem_DUP, stem_DUP_1, stem_DUP_2, ...
C5_DuplicateTriesDupFirst ==
    \A i \in SortMoves :
        LET want == Desired[moved[i].file]
        IN  (moved[i].duplicate /\ Exists(moved[i].pre, want.dir, want.stem, want.ext)) =>
               moved[i].dest.stem =
                  FirstFreeFrom(moved[i].pre, want.dir, want.stem, want.ext, 0)

\* C5 amended: a known duplicate whose desired path exists gets the first
\* free name of stem_DUP_1, stem_DUP_2, ... (stem_DUP is not tried); a
\* clash of a file that is no duplicate gets the first free name of
\* stem_DUP, stem_DUP_1, stem_DUP_2, ...
C5_DuplicateSkipsPlainDup ==
    \A i \in SortMoves :
        LET want == Desired[moved[i].file]
        IN  Exists(moved[i].pre, want.dir, want.stem, want.ext) =>
               moved[i].dest.stem =
                  FirstFreeFrom(moved[i].pre, want.dir, want.stem, want.ext,
                                IF moved[i].duplicate THEN 1 ELSE 0)

C5_Witness ==
    \E i \in SortMoves :
        LET want == Desired[moved[i].file]
        IN  /\ moved[i].duplicate
            /\ Exists(moved[i].pre, want.dir, want.stem, want.ext)
            /\ ~Exists(moved[i].pre, want.dir, want.stem \o "_DUP", want.ext)
            /\ moved[i].dest.stem = want.stem \o "_DUP_1"

\* the sort moves before i that wanted the same path as move i
SameWantBefore(i) ==
    LET want == Desired[moved[i].file]
    IN  {j \in SortMoves : j < i /\ Desired[moved[j].file] = want}

\* the target directory of move i held nothing when the run started
DirEmptyAtStart(i) ==
    LET d == Desired[moved[i].file].dir
    IN  \A e \in RunStartOut : e.dir # d

\* the name claimed for the file that is number n (from 0) of those that
\* resolve to the same name
NthName(stem, n) == IF n = 0 THEN stem ELSE Cand(stem, n - 1)

\* C6 as stated: files of pairwise different content that resolve to the
\* same name in the same, initially empty directory are named name,
\* name_DUP, name_DUP_1, ... in processing order.
C6_DistinctContentNames ==
    \A i \in SortMoves :
        LET group == SameWantBefore(i) \cup {i}
        IN  (/\ DirEmptyAtStart(i)
             /\ \A a, b \in group : a # b => moved[a].file.hash # moved[b].file.hash) =>
               moved[i].dest.stem =
                  NthName(Desired[moved[i].file].stem, Cardinality(SameWantBefore(i)))

\* C6 amended: the same, for files none of which has the content of a file
\* placed earlier in the run.
C6_NonDuplicateNames ==
    \A i \in SortMoves :
        LET group == SameWantBefore(i) \cup {i}
        IN  (/\ DirEmptyAtStart(i)
             /\ \A a \in group : ~moved[a].duplicate) =>
               moved[i].dest.stem =
                  NthName(Desired[moved[i].file].stem, Cardinality(SameWantBefore(i)))

C6_Witness ==
    \E i \in SortMoves :
        /\ DirEmptyAtStart(i)
        /\ Cardinality(SameWantBefore(i)) = 2
        /\ \A a \in SameWantBefore(i) \cup {i} : ~moved[a].duplicate
        /\ moved[i].dest.stem = "photo_DUP_1"

\* C7: without exiftool no repair is invoked and every audit row of the
\* run has TimestampFixed = "NO".
C7_UnavailableRowsSayNo ==
    ~exiftool =>
        /\ invocations = 0
        /\ \A k \in RunRows : log[k].fixed = "NO"

\* C8: once init_log has returned, the log starts with the header row.
C8_LogStartsWithHeader ==
    phase \in {"sort", "leftover", "junk", "prune", "done"} =>
        (logExists /\ Len(log) >= 1 /\ log[1].kind = "header")

\* C9: a run that completed with no failure leaves no file in the source
\* tree, and a second run after it moves nothing and logs nothing.
C9_SecondRunIdle ==
    /\ (phase = "done" /\ failed = {}) => src = {}
    /\ (run = "second" /\ clean1) =>
         (moved = <<>> /\ Len(log) = log0 /\ src = {} /\ deleted = {})

\* C10: a leftover move goes into OUTPUT_DIR itself, under the file's own
\* name when that is free and else under the first free name of stem_DUP,
\* stem_DUP_1, ...; the destination did not exist and nothing that was in
\* the output tree is lost; after the pass only files whose move raised
\* are still in the source tree; and a step of the pass in which moving a
\* file fails goes on to the next file.
C10_LeftoverPass ==
    /\ [](\A i \in LeftoverMoves :
            LET f == moved[i].file
                pre == moved[i].pre
            IN  /\ moved[i].dest.dir = OUTPUT_DIR
                /\ moved[i].dest.ext = f.ext
                /\ ~Exists(pre, OUTPUT_DIR, moved[i].dest.stem, moved[i].dest.ext)
                /\ moved[i].dest.stem =
                      IF Exists(pre, OUTPUT_DIR, f.stem, f.ext)
                      THEN FirstFreeFrom(pre, OUTPUT_DIR, f.stem, f.ext, 0)
                      ELSE f.stem
                /\ pre \subseteq out)
    /\ [](AfterLeftover =>
            \A f \in src \cup deleted : [file |-> f, pass |-> "leftover"] \in failed)
    /\ [][(phase = "leftover" /\ failed' # failed) =>
             (phase' = "leftover" /\ todo' = Tail(todo))]_vars

(***************************************************************************)
(* delete_empty_folders on its own, with any files left in the tree: the   *)
(* loop is sequential code, so a pass that can run does run (weak          *)
(* fairness).                                                              *)
(***************************************************************************)
InitPrune ==
    /\ \E chosen \in SUBSET PoolSet :
         /\ Cardinality(chosen) <= MaxFiles
         /\ src = chosen
         /\ walk \in WalkOrders(chosen)
    /\ dirs = {SubDirs[i] : i \in 1..Len(SubDirs)}
    /\ todo = <<>> /\ out = {} /\ logExists = FALSE /\ log = <<>>
    /\ seen_hashes = {} /\ phase = "prune" /\ step = "next" /\ cur = <<>>
    /\ exiftool = FALSE /\ enableFix = TRUE /\ invocations = 0
    /\ run = "first" /\ moved = <<>> /\ failed = {} /\ deleted = {}
    /\ clean1 = FALSE /\ log0 = 0 /\ rmdir_failed = FALSE
    /\ unlistable \in Unlistables
    /\ call = <<>>

NextPrune == PrunePass

SpecPrune == InitPrune /\ [][NextPrune]_vars /\ WF_vars(PrunePass)

\* C11 as stated: delete_empty_folders terminates; the loop ends only
\* after a pass that removed nothing; no directory that holds a file, and
\* no directory that holds a directory, is removed; and when no rmdir
\* raised, no directory below the base path is empty at the end.
C11_PruneTerminatesClean ==
    /\ <>(phase = "done")
    /\ [][(phase = "prune" /\ phase' = "done") => dirs' = dirs]_vars
    /\ [](\A f \in src : f.dir = SOURCE_DIR \/ f.dir \in dirs)
    /\ [](\A d \in dirs : Parent(d) = SOURCE_DIR \/ Parent(d) \in dirs)
    /\ []((phase = "done" /\ ~rmdir_failed) =>
            \A d \in dirs : \/ \E f \in src : f.dir = d
                             \/ \E c \in dirs : Parent(c) = d)

\* C11: delete_empty_folders terminates; the loop ends only after a pass
\* that removed nothing; no directory that holds a file, and no directory
\* that holds a directory, is removed; a directory the bottom-up walk does
\* not reach, because a directory above it cannot be listed, is never
\* removed, empty or not; and when no rmdir raised, no directory the walk
\* reaches and can list is empty at the end.
C11_PruneCleanWhereWalked ==
    /\ <>(phase = "done")
    /\ [][(phase = "prune" /\ phase' = "done") => dirs' = dirs]_vars
    /\ [](\A f \in src : f.dir = SOURCE_DIR \/ f.dir \in dirs)
    /\ [](\A d \in dirs : Parent(d) = SOURCE_DIR \/ Parent(d) \in dirs)
    /\ [][\A d \in dirs : ~Yielded(d, unlistable) => d \in dirs']_vars
    /\ []((phase = "done" /\ ~rmdir_failed) =>
            \A d \in dirs :
               (Yielded(d, unlistable) /\ d \notin unlistable) =>
                  \/ \E f \in src : f.dir = d
                  \/ \E c \in dirs : Parent(c) = d)

C11_Witness ==
    /\ phase = "done" /\ ~rmdir_failed
    /\ dirs = {"S/a", "S/a/b"}
    /\ unlistable = {"S/a"}
    /\ \A f \in src : f.dir = "S/a"

\* C12: with ENABLE_TIMESTAMP_FIX false, sort_media attempts no timestamp
\* repair.
C12_ToggleHonoured == ~enableFix => invocations = 0

(* Order of the steps of sort_media and of the passes of the main run      *)
(***************************************************************************)
\* the sort moves of the run whose index update has been made; a run that
\* log_move ended stands at the step it ended in
IndexedMoves ==
    IF phase \in {"sort", "aborted"} /\ step \in {"repair", "log", "index"}
    THEN {i \in SortMoves : \E j \in SortMoves : j > i}
    ELSE SortMoves

Digests(seen) == {e.hash : e \in seen}

\* what holds of rows and index in every state of a run
RowsAndIndexOfCompletedMoves ==
    /\ Len(log) - log0 <= Cardinality(SortMoves)
    /\ (phase = "sort" /\ step \in {"repair", "log"}) =>
            Len(log) - log0 = Cardinality(SortMoves) - 1
    /\ (phase = "sort" /\ step \in {"index", "next"}) =>
            Len(log) - log0 = Cardinality(SortMoves)
    /\ \A i \in RunLines :
         LET r == IF log[i].kind = "row" THEN log[i] ELSE log[i].parts[1]
         IN  /\ \E j \in SortMoves :
                  /\ r.src = PathOf(moved[j].file)
                  /\ r.dest = moved[j].dest
                  /\ moved[j].file \notin src
             /\ log[i].kind # "row" =>
                  (log[i].kind = "cut" /\ i = Len(log) /\ phase = "aborted")
    /\ Digests(seen_hashes) = {moved[j].file.hash : j \in IndexedMoves}
    /\ \A e \in seen_hashes :
         \E j \in IndexedMoves :
            /\ e.hash = moved[j].file.hash
            /\ e.path = moved[j].dest
            /\ moved[j].file \notin src

\* what holds of every step of a run
MoveRepairRowIndexOrder ==
    /\ (phase = "sort" /\ moved' # moved) => (step = "next" /\ step' = "repair")
    /\ invocations' # invocations => (step = "repair" /\ step' = "log")
    /\ (log' # log /\ phase = "sort") =>
            /\ step = "log"
            /\ step' = "index" \/ (step' = "log" /\ phase' = "aborted")
    /\ (seen_hashes' # seen_hashes /\ run' = run) =>
            (phase = "sort" /\ step = "index" /\ step' = "next")
    /\ run' = run => Digests(seen_hashes) \subseteq Digests(seen_hashes')

\* C19: in every state of a run of sort_media, also one it is terminated
\* in, every audit row of the run and every entry of the seen-hash index
\* belongs to a file whose move is done; each file is moved, then
\* repaired, then logged, then indexed, so the rows of the run are never
\* more than the moves made, and the digests of the index only grow.
C19_RowsAndIndexFollowMoves ==
    /\ []RowsAndIndexOfCompletedMoves
    /\ [][MoveRepairRowIndexOrder]_vars

C19_Witness ==
    /\ phase = "sort" /\ step = "log"
    /\ Cardinality(SortMoves) = 2
    /\ Len(log) - log0 = 1
    /\ Cardinality(seen_hashes) = 1

NoLeftoverFailure == \A x \in failed : x.pass # "leftover"

\* the files of the pool that delete_junk_files would delete
JunkNamed == {f \in PoolSet : IsJunk(f)}

\* C20: the leftover pass runs before the junk cleanup and takes every
\* file whatever its name: when no leftover move failed, the source holds
\* no file when the junk cleanup starts, the cleanup deletes nothing, and
\* the junk-named files of the source are in the output directory.
C20_JunkNamedFilesRelocated ==
    /\ phase \in {"init_log", "sort", "leftover"} => deleted = {}
    /\ (AfterLeftover /\ NoLeftoverFailure) =>
          /\ src = {}
          /\ deleted = {}
          /\ run = "first" =>
                \A i \in 1..Len(walk) :
                   walk[i] \in JunkNamed =>
                     \E j \in LeftoverMoves :
                        /\ moved[j].file = walk[i]
                        /\ moved[j].dest.dir = OUTPUT_DIR
                        /\ Entry(OUTPUT_DIR, moved[j].dest.stem,
                                 moved[j].dest.ext, walk[i].hash) \in out

====
